---------------------------- MODULE Spec2Model ----------------------------
(***************************************************************************)
(* ST7735 LCD driver (st7735lcd.py): the SPI transport with its D/C line,  *)
(* the addressing-window block protocol, the pixel codec and the bulk      *)
(* transfer chunking, together with a reference controller that interprets *)
(* the bus traffic.                                                        *)
(*                                                                         *)
(* Python values are represented as follows:                               *)
(*   Optional[T]     a sequence of length <= 1: <<>> is None, <<v>> is v   *)
(*   bytes           a sequence of integers 0..255                         *)
(*   an exception    the field err of the bus record ("" = none raised);   *)
(*                   once err is set every later step of the operation is  *)
(*                   skipped, as the exception propagates to the caller    *)
(***************************************************************************)
EXTENDS Integers, Sequences, FiniteSets, TLC

VARIABLES
    width, height, rotation,   \* LcdDisplay.width / .height / .rotation
    rst_pin,                   \* TRUE iff a reset pin object was given
    invert,                    \* LcdDisplay._invert
    offset_left, offset_top,   \* LcdDisplay._offset_left / ._offset_top
    dc_value,                  \* value of the D/C pin (OutPinWrapper._value)
    call,                      \* the last public operation and its arguments
    bus,                       \* pin and bus events of the last operation
    ret,                       \* its outcome: exception raised, value returned
    ctl,                       \* controller registers: command, window, pointer
    gram,                      \* controller frame memory, row-major
    plan, nops,                \* environment: which inputs, operations so far
    c16, rgb, packed, codec_pc,\* pixel codec round trip
    threads                    \* callers sharing the device: call, events, position

vars == <<width, height, rotation, rst_pin, invert, offset_left, offset_top,
          dc_value, call, bus, ret, ctl, gram, plan, nops,
          c16, rgb, packed, codec_pc, threads>>

handle == <<width, height, rotation, rst_pin, invert, offset_left, offset_top>>
codec  == <<c16, rgb, packed, codec_pc>>

----------------------------------------------------------------------------
(* Bounds of the exploration *)

\* Longest sequence of operations explored under the plan "sequence".
MaxOps == 2

\* The transfers of one operation among which the device may fail one
MaxFault == 60

----------------------------------------------------------------------------
(* Class constants of LcdDisplay *)

COLUMN_SET  == 42     \* _CASET 0x2A
PAGE_SET    == 43     \* _RASET 0x2B
RAM_WRITE   == 44     \* _RAMWR 0x2C
RAM_READ    == 46     \* _RAMRD 0x2E
BUFFER_SIZE == 256
X_START     == 0
Y_START     == 0
\* struct.calcsize(">BBB")
DECODE_PIXEL_SIZE == 3

None == <<>>
Some(v) == <<v>>

\* Commands of the initialization sequence
SWRESET == 1
RDDID   == 4
SLPIN   == 16
SLPOUT  == 17
NORON   == 19
INVOFF  == 32
INVON   == 33
DISPOFF == 40
DISPON  == 41
CASET   == 42
RASET   == 43
MADCTL  == 54
COLMOD  == 58
FRMCTR1 == 177
FRMCTR2 == 178
FRMCTR3 == 179
INVCTR  == 180
PWCTR1  == 192
PWCTR2  == 193
PWCTR4  == 195
PWCTR5  == 196
VMCTR1  == 197
GMCTRP1 == 224
GMCTRN1 == 225

----------------------------------------------------------------------------
(* Python integer operators on non-negative integers *)

RECURSIVE BitAnd(_, _)
BitAnd(a, b) ==
    IF a = 0 \/ b = 0 THEN 0
    ELSE (a % 2) * (b % 2) + 2 * BitAnd(a \div 2, b \div 2)

RECURSIVE BitOr(_, _)
BitOr(a, b) ==
    IF a = 0 THEN b
    ELSE IF b = 0 THEN a
    ELSE (IF a % 2 = 1 \/ b % 2 = 1 THEN 1 ELSE 0)
         + 2 * BitOr(a \div 2, b \div 2)

Shl(a, n) == a * 2^n
Shr(a, n) == a \div 2^n

Min(a, b) == IF a < b THEN a ELSE b
Max(a, b) == IF a > b THEN a ELSE b

----------------------------------------------------------------------------
(* Pixel codec *)

\* color565 with the red mask widened to the whole byte.
color565_mask_slip(r, g, b) ==
    BitOr(BitOr(Shl(BitAnd(r, 255), 8), Shl(BitAnd(g, 252), 3)), Shr(b, 3))

\* (red & 0xF8) << 8 | (g & 0xFC) << 3 | b >> 3
color565(r, g, b) ==
    BitOr(BitOr(Shl(BitAnd(r, 248), 8), Shl(BitAnd(g, 252), 3)), Shr(b, 3))

\* In Python << binds tighter than &, so in the red channel
\* "(color >> 11) & 0x1 << 2" is (color >> 11) & 4 and
\* "(color >> 11) & 0x1 << 1" is (color >> 11) & 2.
color_int_to_tuple(color) ==
    LET r == BitOr(BitOr(BitOr(Shl(BitAnd(Shr(color, 11), 31), 3),
                               BitAnd(Shr(color, 11), Shl(1, 2))),
                         BitAnd(Shr(color, 11), Shl(1, 1))),
                   BitAnd(Shr(color, 11), 1))
        g == BitOr(BitOr(Shl(BitAnd(Shr(color, 5), 63), 2),
                         Shl(BitAnd(Shr(color, 5), 1), 1)),
                   BitAnd(Shr(color, 5), 1))
        b == BitOr(BitOr(BitOr(Shl(BitAnd(color, 31), 3),
                               Shl(BitAnd(color, 1), 2)),
                         Shl(BitAnd(color, 1), 1)),
                   BitAnd(color, 1))
    IN  <<r, g, b>>

\* struct.pack(">H", v) raises struct.error unless 0 <= v <= 0xFFFF
PackableH(v) == v \in 0..65535

\* struct.pack(">HH", x, y)
encode_pos(x, y) == <<x \div 256, x % 256, y \div 256, y % 256>>

\* struct.pack("<H", color): low byte first.
encode_pixel_le(color) == <<color % 256, color \div 256>>

\* struct.pack(">H", color)
encode_pixel(color) == <<color \div 256, color % 256>>

\* _decode_pixel that takes the three bytes as blue, green, red.
decode_pixel_bgr(data) == color565(data[3], data[2], data[1])

\* color565(*struct.unpack(">BBB", data))
decode_pixel(data) == color565(data[1], data[2], data[3])

\* bytes * n
Repeat(s, n) ==
    IF n <= 0 THEN <<>>
    ELSE [i \in 1..(n * Len(s)) |-> s[((i - 1) % Len(s)) + 1]]

----------------------------------------------------------------------------
(* Transport: SpiDriver and the D/C pin *)

\* One event of an operation's trace: a pin change ("dc"), a bus write
\* ("wr", v bytes) or a full-duplex transfer ("xfer", v bytes clocked).
Event(e, v, bytes) == [e |-> e, v |-> v, bytes |-> bytes]

\* The bus as an operation sees it: the D/C line, the events so far, the
\* exception raised (if any), the bytes last read, the transfers made and
\* which of them the device fails (0: none).
Bus(dc) == [dc |-> dc, trace |-> <<>>, err |-> "", rx |-> <<>>,
            sent |-> 0, fault |-> 0]

\* A bus whose k-th transfer raises
FaultyBus(dc, k) == [Bus(dc) EXCEPT !.fault = k]

Raise(b, name) == IF b.err # "" THEN b ELSE [b EXCEPT !.err = name]

\* A D/C setter that drives the pin only when its value changes.
SetDc_if_changed(b, v) ==
    IF b.dc = v THEN b
    ELSE [b EXCEPT !.dc = v, !.trace = Append(@, Event("dc", v, <<>>))]

\* OutPinWrapper.value setter on the D/C pin; like every statement it
\* is not reached once an exception is on its way out
SetDc(b, v) ==
    IF b.err # "" THEN b
    ELSE [b EXCEPT !.dc = v, !.trace = Append(@, Event("dc", v, <<>>))]

\* The call of the bus has been made; it raises if it is the one to fail
Transferred(b) ==
    [b EXCEPT !.sent = @ + 1,
              !.err = IF b.sent + 1 = b.fault THEN "OSError" ELSE @]

\* writebytes that does not report the failure of the device.
WriteBytes_swallow(b, data) ==
    IF b.err # "" THEN b
    ELSE [b EXCEPT !.trace = Append(@, Event("wr", Len(data), data)),
                   !.sent = @ + 1]

\* spi_device.writebytes(data)
WriteBytes(b, data) ==
    IF b.err # "" THEN b
    ELSE Transferred(
             [b EXCEPT !.trace = Append(@, Event("wr", Len(data), data))])

\* spi_device.xfer2(bytes(count)), the device answering rx
Xfer2(b, count, rx) ==
    IF b.err # "" THEN b
    ELSE Transferred(
             [b EXCEPT !.trace = Append(@, Event("xfer", count, rx)),
                       !.rx = rx])

\* SpiDriver.write that sets the D/C line after the transfer.
SpiWrite_dc_late(b, command, data) ==
    IF b.err # "" THEN b
    ELSE LET b1 == IF command # None
                   THEN SetDc(WriteBytes(b, <<command[1]>>), 0) ELSE b
         IN  IF data # None THEN SetDc(WriteBytes(b1, data[1]), 1) ELSE b1

\* SpiDriver.write(command, data)
SpiWrite(b, command, data) ==
    IF b.err # "" THEN b
    ELSE LET b1 == IF command # None
                   THEN WriteBytes(SetDc(b, 0), <<command[1]>>) ELSE b
         IN  IF data # None THEN WriteBytes(SetDc(b1, 1), data[1]) ELSE b1

\* SpiDriver.read(command, count); rx is what the device clocks out
SpiRead(b, command, count, rx) ==
    IF b.err # "" THEN b
    ELSE IF count < 0 THEN Raise(b, "ValueError")      \* bytearray(count)
    ELSE LET b1 == IF command # None
                   THEN WriteBytes(SetDc(b, 0), <<command[1]>>) ELSE b
         IN  Xfer2(SetDc(b1, 1), count, SubSeq(rx, 1, count))

\* LcdDisplay.write / LcdDisplay.read delegate to the transport
write(b, command, data) == SpiWrite(b, command, data)
read(b, command, count, rx) == SpiRead(b, command, count, rx)

----------------------------------------------------------------------------
(* Command protocol core: LcdDisplay *)

\* _block that sends no memory-write command for an empty buffer.
_block_window_only(b, x0, y0, x1, y1, data, rx) ==
    IF b.err # "" THEN b
    ELSE IF ~(PackableH(x0 + X_START) /\ PackableH(x1 + X_START))
    THEN Raise(b, "struct.error")
    ELSE
    LET b1 == write(b, Some(COLUMN_SET),
                    Some(encode_pos(x0 + X_START, x1 + X_START)))
    IN  IF ~(PackableH(y0 + Y_START) /\ PackableH(y1 + Y_START))
        THEN Raise(b1, "struct.error")
        ELSE
        LET b2 == write(b1, Some(PAGE_SET),
                        Some(encode_pos(y0 + Y_START, y1 + Y_START)))
        IN  IF data = None
            THEN read(b2, Some(RAM_READ),
                      (x1 - x0 + 1) * (y1 - y0 + 1) * DECODE_PIXEL_SIZE, rx)
            ELSE IF Len(data[1]) # 0 THEN write(b2, Some(RAM_WRITE), data)
            ELSE b2

\* _block that sets the rows before the columns.
_block_rows_first(b, x0, y0, x1, y1, data, rx) ==
    IF b.err # "" THEN b
    ELSE IF ~(PackableH(y0 + Y_START) /\ PackableH(y1 + Y_START))
    THEN Raise(b, "struct.error")
    ELSE
    LET b1 == write(b, Some(PAGE_SET),
                    Some(encode_pos(y0 + Y_START, y1 + Y_START)))
    IN  IF ~(PackableH(x0 + X_START) /\ PackableH(x1 + X_START))
        THEN Raise(b1, "struct.error")
        ELSE
        LET b2 == write(b1, Some(COLUMN_SET),
                        Some(encode_pos(x0 + X_START, x1 + X_START)))
        IN  IF data = None
            THEN read(b2, Some(RAM_READ),
                      (x1 - x0 + 1) * (y1 - y0 + 1) * DECODE_PIXEL_SIZE, rx)
            ELSE write(b2, Some(RAM_WRITE),
                       IF Len(data[1]) # 0 THEN data ELSE None)

\* _block that trusts the window the controller already has.
_block_keeps_window(b, x0, y0, x1, y1, data, rx) ==
    IF b.err # "" THEN b
    ELSE IF data = None
    THEN read(b, Some(RAM_READ),
              (x1 - x0 + 1) * (y1 - y0 + 1) * DECODE_PIXEL_SIZE, rx)
    ELSE write(b, Some(RAM_WRITE), IF Len(data[1]) # 0 THEN data ELSE None)

\* _block(x0, y0, x1, y1, data): the arguments of each write are evaluated
\* (and may raise struct.error) before that write is made.
_block(b, x0, y0, x1, y1, data, rx) ==
    IF b.err # "" THEN b
    ELSE IF ~(PackableH(x0 + X_START) /\ PackableH(x1 + X_START))
    THEN Raise(b, "struct.error")
    ELSE
    LET b1 == write(b, Some(COLUMN_SET),
                    Some(encode_pos(x0 + X_START, x1 + X_START)))
    IN  IF ~(PackableH(y0 + Y_START) /\ PackableH(y1 + Y_START))
        THEN Raise(b1, "struct.error")
        ELSE
        LET b2 == write(b1, Some(PAGE_SET),
                        Some(encode_pos(y0 + Y_START, y1 + Y_START)))
        IN  IF data = None
            THEN read(b2, Some(RAM_READ),
                      (x1 - x0 + 1) * (y1 - y0 + 1) * DECODE_PIXEL_SIZE, rx)
            ELSE write(b2, Some(RAM_WRITE),
                       IF Len(data[1]) # 0 THEN data ELSE None)

\* divmod that loses the remainder.
divmod_no_rest(a, b) == <<a \div b, 0>>

\* divmod(a, b)
divmod(a, b) == <<a \div b, a % b>>

\* ClampRect that limits the size by the panel, not by the span left.
ClampRect_full_span(x, y, w, h) ==
    LET cx == Min(width - 1, Max(0, x))
        cy == Min(height - 1, Max(0, y))
        cw == Min(width, Max(1, w))
        ch == Min(height, Max(1, h))
    IN  <<cx, cy, cw, ch>>

\* The clamping of fill_rectangle's arguments: <<x, y, width, height>>
ClampRect(x, y, w, h) ==
    LET cx == Min(width - 1, Max(0, x))
        cy == Min(height - 1, Max(0, y))
        cw == Min(width - cx, Max(1, w))
        ch == Min(height - cy, Max(1, h))
    IN  <<cx, cy, cw, ch>>

\* for _ in range(n): self.write(None, data)
RECURSIVE WriteTimes(_, _, _)
WriteTimes(b, data, n) ==
    IF n <= 0 THEN b ELSE WriteTimes(write(b, None, Some(data)), data, n - 1)

\* Data writes that send the memory-write command again before the rest.
FillChunks_recommand(b, total, color) ==
    LET dm     == divmod(total, BUFFER_SIZE)
        chunks == dm[1]
        rest   == dm[2]
    IN  IF b.err # "" THEN b
        ELSE IF ~PackableH(color) THEN Raise(b, "struct.error")
        ELSE
        LET pixel == encode_pixel(color)
            b1 == IF chunks # 0
                  THEN WriteTimes(b, Repeat(pixel, BUFFER_SIZE), chunks)
                  ELSE b
        IN  IF rest # 0
            THEN write(b1, Some(RAM_WRITE), Some(Repeat(pixel, rest)))
            ELSE b1

\* The data writes of fill_rectangle after the window is set
FillChunks(b, total, color) ==
    LET dm     == divmod(total, BUFFER_SIZE)
        chunks == dm[1]
        rest   == dm[2]
    IN  IF b.err # "" THEN b
        ELSE IF ~PackableH(color) THEN Raise(b, "struct.error")
        ELSE
        LET pixel == encode_pixel(color)
            b1 == IF chunks # 0
                  THEN WriteTimes(b, Repeat(pixel, BUFFER_SIZE), chunks)
                  ELSE b
        IN  IF rest # 0 THEN write(b1, None, Some(Repeat(pixel, rest)))
            ELSE b1

\* fill_rectangle(x, y, width, height, color)
fill_rectangle(b, x, y, w, h, color) ==
    LET r  == ClampRect(x, y, w, h)
        b1 == _block(b, r[1], r[2], r[1] + r[3] - 1, r[2] + r[4] - 1,
                     Some(<<>>), <<>>)
    IN  FillChunks(b1, r[3] * r[4], color)

\* fill that stops one row short of the panel.
fill_but_last_row(b, color) ==
    fill_rectangle(b, 0, 0, width, height - 1, color)

\* fill(color)
fill(b, color) == fill_rectangle(b, 0, 0, width, height, color)

\* pixel whose bounds test admits x = width and y = height.
pixel_bound_inclusive(b, x, y, color, rx) ==
    IF color = None THEN _block(b, x, y, x, y, None, rx)
    ELSE IF 0 <= x /\ x <= width /\ 0 <= y /\ y <= height
    THEN IF ~PackableH(color[1]) THEN Raise(b, "struct.error")
         ELSE _block(b, x, y, x, y, Some(encode_pixel(color[1])), <<>>)
    ELSE b

\* pixel that passes the row as the column and the column as the row.
pixel_transposed(b, x, y, color, rx) ==
    IF color = None THEN _block(b, y, x, y, x, None, rx)
    ELSE IF 0 <= x /\ x < width /\ 0 <= y /\ y < height
    THEN IF ~PackableH(color[1]) THEN Raise(b, "struct.error")
         ELSE _block(b, y, x, y, x, Some(encode_pixel(color[1])), <<>>)
    ELSE b

\* pixel(x, y, color): a read when color is None, else a write
pixel(b, x, y, color, rx) ==
    IF color = None THEN _block(b, x, y, x, y, None, rx)
    ELSE IF 0 <= x /\ x < width /\ 0 <= y /\ y < height
    THEN IF ~PackableH(color[1]) THEN Raise(b, "struct.error")
         ELSE _block(b, x, y, x, y, Some(encode_pixel(color[1])), <<>>)
    ELSE b

\* The value pixel() returns: the decoded read, or None after a write
pixel_value(b, color) ==
    IF color = None /\ b.err = "" THEN Some(decode_pixel(b.rx)) ELSE None

----------------------------------------------------------------------------
(* Reset and initialization: LcdDisplay.reset, LcdDisplay.init *)

\* str(n).encode(): the decimal digits of n in ASCII, "-" first if n < 0
RECURSIVE Digits(_)
Digits(n) ==
    IF n < 10 THEN <<48 + n>> ELSE Append(Digits(n \div 10), 48 + (n % 10))

Str(n) == IF n < 0 THEN <<45>> \o Digits(-n) ELSE Digits(n)

\* OutPinWrapper.value setter on the reset pin
SetRst(b, v) ==
    IF b.err # "" THEN b
    ELSE [b EXCEPT !.trace = Append(@, Event("rst", v, <<>>))]

\* time.sleep(ms / 1000)
Sleep(b, ms) ==
    IF b.err # "" THEN b
    ELSE [b EXCEPT !.trace = Append(@, Event("sleep", ms, <<>>))]

\* reset that pulses the pin before it finds there is none.
reset_unguarded(b) ==
    IF b.err # "" THEN b
    ELSE LET b1 == Sleep(SetRst(Sleep(SetRst(b, 0), 50), 1), 50)
         IN  IF ~rst_pin THEN Raise(b1, "RuntimeError") ELSE b1

\* reset that pulses the pin high and leaves it low.
reset_left_low(b) ==
    IF b.err # "" THEN b
    ELSE IF ~rst_pin THEN Raise(b, "RuntimeError")
    ELSE Sleep(SetRst(Sleep(SetRst(b, 1), 50), 0), 50)

\* reset()
reset(b) ==
    IF b.err # "" THEN b
    ELSE IF ~rst_pin THEN Raise(b, "RuntimeError")
    ELSE Sleep(SetRst(Sleep(SetRst(b, 0), 50), 1), 50)

\* init wake-up that settles after sleep-out only.
InitWake_one_settle(b) ==
    IF b.err # "" THEN b
    ELSE
        LET b1 == write(Sleep(b, 500), Some(SWRESET), None)
            b2 == write(b1, Some(SLPOUT), None)
        IN  Sleep(Sleep(b2, 150), 500)

\* init, lines 274-279: software reset and sleep-out with their delays
InitWake(b) ==
    IF b.err # "" THEN b
    ELSE
        LET b1 == Sleep(write(Sleep(b, 500), Some(SWRESET), None), 150)
        IN  Sleep(write(b1, Some(SLPOUT), None), 500)

\* init, lines 283-294: frame rates and display inversion control
InitFrame(b) ==
    IF b.err # "" THEN b
    ELSE
        LET b1 == write(b, Some(FRMCTR1), Some(<<1, 44, 45>>))
            b2 == write(b1, Some(FRMCTR2), Some(<<1, 44, 45>>))
            b3 == write(b2, Some(FRMCTR3), None)
            b4 == write(b3, None, Some(<<1, 44, 45>>))
            b5 == write(b4, None, Some(<<1, 44, 45>>))
            b6 == write(b5, Some(INVCTR), None)
        IN  write(b6, None, Some(<<7>>))

\* init power-up that ends with power control 6 (0xFC) instead of VCOM.
InitPower_sixth(b) ==
    IF b.err # "" THEN b
    ELSE
        LET b1 == write(write(b, Some(PWCTR1), None), None,
                        Some(<<162, 2, 132>>))
            b2 == write(write(b1, Some(PWCTR2), None), None, Some(<<10, 0>>))
            b3 == write(write(b2, Some(PWCTR4), None), None, Some(<<138, 42>>))
            b4 == write(write(b3, Some(PWCTR5), None), None,
                        Some(<<138, 238>>))
        IN  write(write(b4, Some(252), None), None, Some(<<14>>))

\* init, lines 296-309: power and VCOM
InitPower(b) ==
    IF b.err # "" THEN b
    ELSE
        LET b1 == write(write(b, Some(PWCTR1), None), None, Some(<<162, 2, 132>>))
            b2 == write(write(b1, Some(PWCTR2), None), None, Some(<<10, 0>>))
            b3 == write(write(b2, Some(PWCTR4), None), None, Some(<<138, 42>>))
            b4 == write(write(b3, Some(PWCTR5), None), None, Some(<<138, 238>>))
        IN  write(write(b4, Some(VMCTR1), None), None, Some(<<14>>))

\* init that never turns the inversion on.
InitMode_never_inverts(b) ==
    IF b.err # "" THEN b
    ELSE
        LET b1 == write(b, Some(INVOFF), None)
            b2 == write(write(b1, Some(MADCTL), None), None, Some(<<192>>))
        IN  write(write(b2, Some(COLMOD), None), None, Some(<<5>>))

\* init, lines 311-320: inversion, scan direction, colour mode
InitMode(b) ==
    IF b.err # "" THEN b
    ELSE
        LET b1 == IF invert THEN write(b, Some(INVON), None)
                  ELSE write(b, Some(INVOFF), None)
            b2 == write(write(b1, Some(MADCTL), None), None, Some(<<192>>))
        IN  write(write(b2, Some(COLMOD), None), None, Some(<<5>>))

\* init, lines 322-332: the address window of the whole panel
InitWindow(b) ==
    IF b.err # "" THEN b
    ELSE
        LET b1 == write(b, Some(CASET), None)
            b2 == write(b1, None, Some(<<0>>))
            b3 == write(b2, None, Some(Str(offset_left)))
            b4 == write(b3, None, Some(<<0>>))
            b5 == write(b4, None, Some(Str(width + offset_left - 1)))
            b6 == write(b5, Some(RASET), None)
            b7 == write(b6, None, Some(<<0>>))
            b8 == write(b7, None, Some(Str(offset_top)))
            b9 == write(b8, None, Some(<<0>>))
        IN  write(b9, None, Some(Str(height + offset_top - 1)))

\* init, lines 334-340: the two gamma curves
InitGamma(b) ==
    IF b.err # "" THEN b
    ELSE
        LET b1 == write(b, Some(GMCTRP1), None)
            b2 == write(b1, None, Some(<<2, 28, 7, 18, 55, 50, 41, 45>>))
            b3 == write(b2, None, Some(<<41, 37, 43, 57, 0, 1, 3, 16>>))
            b4 == write(b3, Some(GMCTRN1), None)
            b5 == write(b4, None, Some(<<3, 29, 7, 6, 46, 44, 41, 45>>))
        IN  write(b5, None, Some(<<46, 46, 55, 63, 0, 0, 2, 16>>))

\* display_on()
display_on(b) == write(b, Some(DISPON), None)

\* init, lines 342-346: normal display on, display on
InitOn(b) ==
    IF b.err # "" THEN b
    ELSE
        LET b1 == Sleep(write(b, Some(NORON), None), 100)
        IN  Sleep(display_on(b1), 100)

\* init()
init(b) ==
    InitOn(InitGamma(InitWindow(InitMode(InitPower(InitFrame(
        InitWake(reset(b))))))))

\* display_off(), sleep(), wake()
display_off(b) == write(b, Some(DISPOFF), None)
sleep(b)       == write(b, Some(SLPIN), None)
wake(b)        == write(b, Some(SLPOUT), None)

\* dev_id(): the four bytes read after RDDID as one big-endian integer
dev_id(b, rx) == read(b, Some(RDDID), 4, rx)
dev_id_value(b) ==
    IF b.err # "" THEN None
    ELSE Some(((b.rx[1] * 256 + b.rx[2]) * 256 + b.rx[3]) * 256 + b.rx[4])

----------------------------------------------------------------------------
(* Images: a PIL image is its mode, its size and its content; the content  *)
(* is that of source image id, turned counter-clockwise by turn degrees.   *)

Img(id, mode, w, h) == [id |-> id, mode |-> mode, w |-> w, h |-> h, turn |-> 0]

\* The RGB channels of source image id at column ix, row iy
Src(id, ix, iy) ==
    << (40 * ix + 8 * id + 5) % 256,
       (36 * iy + 3) % 256,
       (24 * (ix + iy) + 16 * id + 9) % 256 >>

\* img.rotate(angle, expand=True) for angle in 90, 180, 270
Rotate(img, angle) ==
    IF angle = 180 THEN [img EXCEPT !.turn = 180]
    ELSE [img EXCEPT !.w = img.h, !.h = img.w, !.turn = angle]

\* The RGB channels of img at column ox, row oy
Px(img, ox, oy) ==
    CASE img.turn = 0   -> Src(img.id, ox, oy)
      [] img.turn = 90  -> Src(img.id, img.h - 1 - oy, ox)
      [] img.turn = 180 -> Src(img.id, img.w - 1 - ox, img.h - 1 - oy)
      [] img.turn = 270 -> Src(img.id, oy, img.w - 1 - ox)

\* image_to_data that puts the low byte of each pixel first.
image_to_data_low_first(img) ==
    [k \in 1..(2 * img.w * img.h) |->
        LET p == (k - 1) \div 2
            c == Px(img, p % img.w, p \div img.w)
            color == BitOr(BitOr(Shl(BitAnd(c[1], 248), 8),
                                 Shl(BitAnd(c[2], 252), 3)),
                           Shr(c[3], 3))
        IN  IF k % 2 = 1 THEN BitAnd(color, 255)
            ELSE BitAnd(Shr(color, 8), 255)]

\* image_to_data(image): row-major, two bytes per pixel, high byte first
image_to_data(img) ==
    [k \in 1..(2 * img.w * img.h) |->
        LET p == (k - 1) \div 2
            c == Px(img, p % img.w, p \div img.w)
            color == BitOr(BitOr(Shl(BitAnd(c[1], 248), 8),
                                 Shl(BitAnd(c[2], 252), 3)),
                           Shr(c[3], 3))
        IN  IF k % 2 = 1 THEN BitAnd(Shr(color, 8), 255)
            ELSE BitAnd(color, 255)]

\* for c in range(chunks): self.write(None, pixels[c*SIZE : (c+1)*SIZE])
RECURSIVE WriteSlices(_, _, _, _)
WriteSlices(b, pixels, c, chunks) ==
    IF c >= chunks THEN b
    ELSE WriteSlices(
             write(b, None, Some(SubSeq(pixels, c * BUFFER_SIZE + 1,
                                        (c + 1) * BUFFER_SIZE))),
             pixels, c + 1, chunks)

\* The data writes of image after the window is set
ImageChunks(b, pixels) ==
    LET dm     == divmod(Len(pixels), BUFFER_SIZE)
        chunks == dm[1]
        rest   == dm[2]
        b1     == IF chunks # 0 THEN WriteSlices(b, pixels, 0, chunks) ELSE b
    IN  IF rest # 0
        THEN write(b1, None, Some(SubSeq(pixels, chunks * BUFFER_SIZE + 1,
                                         Len(pixels))))
        ELSE b1

\* rotation if given, else the device rotation
EffectiveRotation(rot) == IF rot = None THEN rotation ELSE rot[1]

\* The image as image() measures and sends it
Rotated(img, rot) ==
    IF EffectiveRotation(rot) # 0 THEN Rotate(img, EffectiveRotation(rot))
    ELSE img

\* image that tests the placement only after the window is set.
image_late_bounds(b, img, rot, x, y) ==
    IF img.mode \notin {"RGB", "RGBA"} THEN Raise(b, "ValueError")
    ELSE IF EffectiveRotation(rot) \notin {0, 90, 180, 270}
    THEN Raise(b, "ValueError")
    ELSE
    LET im == Rotated(img, rot)
        b1 == _block(b, x, y, x + im.w - 1, y + im.h - 1, Some(<<>>), <<>>)
    IN  IF x + im.w > width \/ y + im.h > height THEN Raise(b1, "ValueError")
        ELSE ImageChunks(b1, image_to_data(im))

\* image that validates the rotation argument but not the device rotation.
image_default_unchecked(b, img, rot, x, y) ==
    IF img.mode \notin {"RGB", "RGBA"} THEN Raise(b, "ValueError")
    ELSE IF rot # None /\ rot[1] \notin {0, 90, 180, 270}
    THEN Raise(b, "ValueError")
    ELSE
    LET im == IF EffectiveRotation(rot) \in {90, 180, 270}
              THEN Rotate(img, EffectiveRotation(rot)) ELSE img
    IN  IF x + im.w > width \/ y + im.h > height THEN Raise(b, "ValueError")
        ELSE
        LET pixels == image_to_data(im)
            b1 == _block(b, x, y, x + im.w - 1, y + im.h - 1, Some(<<>>), <<>>)
        IN  ImageChunks(b1, pixels)

\* image(img, rotation, x, y)
image(b, img, rot, x, y) ==
    IF img.mode \notin {"RGB", "RGBA"} THEN Raise(b, "ValueError")
    ELSE IF EffectiveRotation(rot) \notin {0, 90, 180, 270}
    THEN Raise(b, "ValueError")
    ELSE
    LET im == Rotated(img, rot)
    IN  IF x + im.w > width \/ y + im.h > height THEN Raise(b, "ValueError")
        ELSE
        LET pixels == image_to_data(im)
            b1 == _block(b, x, y, x + im.w - 1, y + im.h - 1, Some(<<>>), <<>>)
        IN  ImageChunks(b1, pixels)

----------------------------------------------------------------------------
(* Reference controller: it latches a command byte sent with D/C low,      *)
(* takes the four parameter bytes of column-set / row-set as the window,   *)
(* and stores the data bytes that follow a memory-write, two per pixel, in *)
(* raster order inside the window, wrapping at its end.                    *)

CtlReset ==
    [cmd |-> 0, args |-> <<>>, xs |-> 0, xe |-> width - 1,
     ys |-> 0, ye |-> height - 1, ptr |-> 0]

GramReset == [i \in 1..(width * height) |-> 0]

\* The frame memory after n pixels of data arrive with the pointer at c.ptr
GramWrite(g, c, data) ==
    LET n    == Len(data) \div 2
        ww   == c.xe - c.xs + 1
        wh   == c.ye - c.ys + 1
        area == ww * wh
    IN  IF ww <= 0 \/ wh <= 0 \/ n = 0 THEN g
        ELSE [i \in 1..(width * height) |->
                LET px == (i - 1) % width
                    py == (i - 1) \div width
                IN  IF px < c.xs \/ px > c.xe \/ py < c.ys \/ py > c.ye
                    THEN g[i]
                    ELSE LET idx == (py - c.ys) * ww + (px - c.xs)
                             k0  == (idx - c.ptr) % area
                         IN  IF k0 >= n THEN g[i]
                             ELSE LET k == k0 + area * ((n - 1 - k0) \div area)
                                  IN  data[2 * k + 1] * 256 + data[2 * k + 2]]

\* The registers after parameter or data bytes arrive (D/C high)
CtlData(c, data) ==
    IF c.cmd \in {COLUMN_SET, PAGE_SET}
    THEN LET a == SubSeq(c.args \o data, 1, Min(4, Len(c.args) + Len(data)))
             lo == a[1] * 256 + a[2]
             hi == a[3] * 256 + a[4]
         IN  IF Len(a) < 4 THEN [c EXCEPT !.args = a]
             ELSE IF c.cmd = COLUMN_SET
                  THEN [c EXCEPT !.args = a, !.xs = lo, !.xe = hi]
                  ELSE [c EXCEPT !.args = a, !.ys = lo, !.ye = hi]
    ELSE IF c.cmd = RAM_WRITE
    THEN [c EXCEPT !.ptr = c.ptr + Len(data) \div 2]
    ELSE c

\* The controller after one event of the trace; st = [dc, c, g]
CtlEvent(st, ev) ==
    IF ev.e = "dc" THEN [st EXCEPT !.dc = ev.v]
    ELSE IF ev.e = "wr" /\ ev.v > 0 /\ st.dc = 0
    THEN [st EXCEPT !.c = [@ EXCEPT !.cmd = ev.bytes[ev.v],
                                    !.args = <<>>, !.ptr = 0]]
    ELSE IF ev.e = "wr" /\ ev.v > 0
    THEN [st EXCEPT !.c = CtlData(st.c, ev.bytes),
                    !.g = IF st.c.cmd = RAM_WRITE
                          THEN GramWrite(st.g, st.c, ev.bytes) ELSE @]
    ELSE st

RECURSIVE Controller(_, _, _)
Controller(st, trace, i) ==
    IF i > Len(trace) \/ st.dc \notin {0, 1} THEN st
    ELSE Controller(CtlEvent(st, trace[i]), trace, i + 1)

----------------------------------------------------------------------------
(* Environment: the devices constructed and the arguments of the calls *)

\* Constructor arguments and the plan of the run:
\*   "single"    one operation, arguments from the fine sets
\*   "bulk"      one operation on a panel of more than two buffers of pixels
\*   "sequence"  up to MaxOps operations, arguments from the coarse sets
\*   "device"    up to MaxOps operations of the device life cycle and the
\*               transport, drawing arguments from the coarse sets
Scenarios ==
    { [w |-> 4,  h |-> 3,  rot |-> 90,  rst |-> TRUE,  plan |-> "single"],
      [w |-> 1,  h |-> 1,  rot |-> 45,  rst |-> FALSE, plan |-> "single"],
      [w |-> 33, h |-> 16, rot |-> 0,   rst |-> TRUE,  plan |-> "bulk"],
      [w |-> 3,  h |-> 2,  rot |-> 0,   rst |-> TRUE,  plan |-> "sequence"],
      [w |-> 2,  h |-> 3,  rot |-> 270, rst |-> FALSE, plan |-> "sequence"] }

Budget == IF plan \in {"sequence", "device"} THEN MaxOps ELSE 1

Pick(single, bulk, sequence) ==
    CASE plan = "single" -> single
      [] plan = "bulk"   -> bulk
      [] OTHER           -> sequence

\* Arguments of fill_rectangle
RectXs == Pick({-1, 0, 1, width - 1, width}, {0, 1}, {-1, 1})
RectYs == Pick({-1, 0, 1, height - 1, height}, {0}, {0, height})
RectWs == Pick({-1, 0, 1, width, width + 1}, {8, 16, 17, 32, 34}, {width + 1})
RectHs == Pick({-1, 0, 1, height, height + 1}, {1, 15, 16}, {1})

\* 0xF81F, 0x07E0 and a value that does not fit 16 bits
Colors == Pick({63519, 65536}, {63519}, {63519, 2016})

\* Arguments of pixel
PixelXs == Pick({-1, 0, 1, width - 1, width, 65536}, {32, 33}, {0, width})
PixelYs == Pick({-1, 0, 1, height - 1, height, 65536}, {15}, {1})

\* What the controller answers to a one-pixel memory read
ReadTriples ==
    Pick({<<0, 0, 0>>, <<255, 255, 255>>, <<18, 52, 86>>},
         {<<18, 52, 86>>}, {<<250, 130, 9>>})

\* Arguments of image
Images ==
    Pick({ Img(1, "RGB", 2, 1), Img(2, "RGBA", 4, 3), Img(3, "RGB", 3, 4),
           Img(4, "L", 2, 1), Img(5, "RGB", 0, 0), Img(6, "RGB", 1, 1) },
         { Img(7, "RGB", 16, 8), Img(8, "RGBA", 12, 11), Img(9, "RGB", 33, 8),
           Img(10, "RGB", 16, 16), Img(11, "RGB", 34, 1) },
         { Img(1, "RGB", 2, 1), Img(4, "L", 2, 1) })

Rotations ==
    Pick({None, Some(0), Some(90), Some(180), Some(270), Some(45)},
         {None, Some(90)}, {None, Some(0)})

ImageXs == Pick({-1, 0, 1, width - 1}, {0, 1}, {1})
ImageYs == Pick({-1, 0, 1, height - 1}, {0}, {0})

OffsetPairs == {<<2, 1>>}

NoImg == Img(0, "", 0, 0)

Call(op, x, y, w, h, color, rot, img) ==
    [op |-> op, x |-> x, y |-> y, w |-> w, h |-> h,
     color |-> color, rot |-> rot, img |-> img]

----------------------------------------------------------------------------
(* The state machine *)

\* LcdDisplay.__init__ (and the D/C pin as OutPinWrapper leaves it)
Init ==
    /\ \E s \in Scenarios :
          /\ width = s.w /\ height = s.h /\ rotation = s.rot
          /\ rst_pin = s.rst /\ plan = s.plan
    /\ invert = FALSE /\ offset_left = 0 /\ offset_top = 0
    /\ dc_value = 0
    /\ call = Call("__init__", 0, 0, 0, 0, None, None, NoImg)
    /\ bus = <<>>
    /\ ret = [err |-> "", value |-> None]
    /\ ctl = CtlReset /\ gram = GramReset
    /\ nops = 0 /\ threads = <<>>
    /\ c16 = 0 /\ rgb = <<0, 0, 0>> /\ packed = 0 /\ codec_pc = "idle"

\* The caller sets the handle's origin before the first operation
Configure ==
    /\ nops = 0 /\ offset_left = 0 /\ offset_top = 0
    /\ \E o \in OffsetPairs : offset_left' = o[1] /\ offset_top' = o[2]
    /\ UNCHANGED <<width, height, rotation, rst_pin, invert, dc_value, call,
                   bus, ret, ctl, gram, plan, nops, codec, threads>>

\* A public operation was called as c and ran to b, returning value
Operation(c, b, value) ==
    /\ nops < Budget
    /\ nops' = nops + 1
    /\ call' = c
    /\ bus' = b.trace
    /\ dc_value' = b.dc
    /\ ret' = [err |-> b.err, value |-> IF b.err = "" THEN value ELSE None]
    /\ LET st == Controller([dc |-> dc_value, c |-> ctl, g |-> gram],
                            b.trace, 1)
       IN  ctl' = st.c /\ gram' = st.g
    /\ UNCHANGED <<handle, plan, codec, threads>>

Fill ==
    \E color \in Colors :
        Operation(Call("fill", 0, 0, 0, 0, Some(color), None, NoImg),
                  fill(Bus(dc_value), color), None)

FillRectangle ==
    \E x \in RectXs, y \in RectYs, w \in RectWs, h \in RectHs,
       color \in Colors :
        Operation(Call("fill_rectangle", x, y, w, h, Some(color), None, NoImg),
                  fill_rectangle(Bus(dc_value), x, y, w, h, color), None)

PixelWrite ==
    \E x \in PixelXs, y \in PixelYs, color \in Colors :
        Operation(Call("pixel", x, y, 0, 0, Some(color), None, NoImg),
                  pixel(Bus(dc_value), x, y, Some(color), <<>>), None)

PixelRead ==
    \E x \in PixelXs, y \in PixelYs, rx \in ReadTriples :
        LET b == pixel(Bus(dc_value), x, y, None, rx)
        IN  Operation(Call("pixel", x, y, 0, 0, None, None, NoImg),
                      b, pixel_value(b, None))

Image ==
    \E img \in Images, rot \in Rotations, x \in ImageXs, y \in ImageYs :
        Operation(Call("image", x, y, 0, 0, None, rot, img),
                  image(Bus(dc_value), img, rot, x, y), None)

Next == Configure \/ Fill \/ FillRectangle \/ PixelWrite \/ PixelRead \/ Image

Spec == Init /\ [][Next]_vars

----------------------------------------------------------------------------
(* The pixel codec on every 16-bit colour *)

InitCodec ==
    /\ width = 1 /\ height = 1 /\ rotation = 0 /\ rst_pin = TRUE
    /\ plan = "codec"
    /\ invert = FALSE /\ offset_left = 0 /\ offset_top = 0
    /\ dc_value = 0
    /\ call = Call("__init__", 0, 0, 0, 0, None, None, NoImg)
    /\ bus = <<>>
    /\ ret = [err |-> "", value |-> None]
    /\ ctl = CtlReset /\ gram = GramReset
    /\ nops = 0 /\ threads = <<>>
    /\ c16 \in 0..65535 /\ rgb = <<0, 0, 0>> /\ packed = 0 /\ codec_pc = "in"

\* color_int_to_tuple(c16)
Widen ==
    /\ codec_pc = "in"
    /\ rgb' = color_int_to_tuple(c16)
    /\ codec_pc' = "widened"
    /\ UNCHANGED <<handle, dc_value, call, bus, ret, ctl, gram, plan, nops,
                   c16, packed, threads>>

\* color565(rgb), as _decode_pixel applies it to the three bytes
Pack ==
    /\ codec_pc = "widened"
    /\ packed' = decode_pixel(rgb)
    /\ codec_pc' = "packed"
    /\ UNCHANGED <<handle, dc_value, call, bus, ret, ctl, gram, plan, nops,
                   c16, rgb, threads>>

NextCodec == Widen \/ Pack

SpecCodec == InitCodec /\ [][NextCodec]_vars

----------------------------------------------------------------------------
(* The device life cycle and the transport *)

DeviceScenarios ==
    { [w |-> 128, h |-> 2,  rot |-> 0,  rst |-> TRUE],
      [w |-> 12,  h |-> 10, rot |-> 90, rst |-> TRUE],
      [w |-> 4,   h |-> 3,  rot |-> 0,  rst |-> FALSE] }

\* Arguments of write and read on the transport
WriteCommands == {None, Some(0), Some(RAM_WRITE)}
WriteDatas    == {None, Some(<<>>), Some(<<248, 31>>)}
ReadCommands  == {None, Some(RDDID)}
ReadCounts    == {-1, 4}

\* Arguments x0, y0, x1, y1 of _block when it reads
BlockWindows ==
    { <<0, 0, 1, 1>>, <<1, 0, 3, 1>>, <<2, 0, 0, 0>>, <<1, 1, 0, 1>>,
      <<0, 0, 65536, 0>> }

\* What the device clocks out: as many bytes as are requested
Answer(count) == SubSeq(Repeat(<<18, 52, 86>>, 8), 1, Max(0, count))

\* The call made on the transport or the life cycle, with its arguments
DeviceCall(op, command, data, count, win) ==
    [op |-> op, x |-> 0, y |-> 0, w |-> 0, h |-> 0,
     color |-> None, rot |-> None, img |-> NoImg,
     command |-> command, data |-> data, count |-> count, win |-> win]

InitDevice ==
    /\ \E s \in DeviceScenarios :
          /\ width = s.w /\ height = s.h /\ rotation = s.rot
          /\ rst_pin = s.rst
    /\ plan = "device"
    /\ invert = FALSE /\ offset_left = 0 /\ offset_top = 0
    /\ dc_value = 0
    /\ call = Call("__init__", 0, 0, 0, 0, None, None, NoImg)
    /\ bus = <<>>
    /\ ret = [err |-> "", value |-> None]
    /\ ctl = CtlReset /\ gram = GramReset
    /\ nops = 0 /\ threads = <<>>
    /\ c16 = 0 /\ rgb = <<0, 0, 0>> /\ packed = 0 /\ codec_pc = "idle"

\* The caller sets the handle's invert flag before the first operation
ConfigureInvert ==
    /\ nops = 0 /\ ~invert
    /\ invert' = TRUE
    /\ UNCHANGED <<width, height, rotation, rst_pin, offset_left, offset_top,
                   dc_value, call, bus, ret, ctl, gram, plan, nops, codec, threads>>

DeviceReset ==
    Operation(DeviceCall("reset", None, None, 0, <<>>),
              reset(Bus(dc_value)), None)

DeviceInit ==
    Operation(DeviceCall("init", None, None, 0, <<>>),
              init(Bus(dc_value)), None)

TransportWrite ==
    \E command \in WriteCommands, data \in WriteDatas :
        Operation(DeviceCall("write", command, data, 0, <<>>),
                  write(Bus(dc_value), command, data), None)

TransportRead ==
    \E command \in ReadCommands, count \in ReadCounts :
        LET b == read(Bus(dc_value), command, count, Answer(count))
        IN  Operation(DeviceCall("read", command, None, count, <<>>),
                      b, Some(b.rx))

BlockRead ==
    \E win \in BlockWindows :
        LET count == (win[3] - win[1] + 1) * (win[4] - win[2] + 1)
                        * DECODE_PIXEL_SIZE
            b == _block(Bus(dc_value), win[1], win[2], win[3], win[4],
                        None, Answer(count))
        IN  Operation(DeviceCall("_block", None, None, 0, win), b, Some(b.rx))

DisplayOn ==
    Operation(DeviceCall("display_on", None, None, 0, <<>>),
              display_on(Bus(dc_value)), None)

DisplayOff ==
    Operation(DeviceCall("display_off", None, None, 0, <<>>),
              display_off(Bus(dc_value)), None)

DeviceSleep ==
    Operation(DeviceCall("sleep", None, None, 0, <<>>),
              sleep(Bus(dc_value)), None)

DeviceWake ==
    Operation(DeviceCall("wake", None, None, 0, <<>>),
              wake(Bus(dc_value)), None)

DevId ==
    LET b == dev_id(Bus(dc_value), Answer(4))
    IN  Operation(DeviceCall("dev_id", None, None, 0, <<>>),
                  b, dev_id_value(b))

NextDevice ==
    \/ Configure \/ ConfigureInvert
    \/ DeviceReset \/ DeviceInit
    \/ TransportWrite \/ TransportRead
    \/ BlockRead \/ PixelRead \/ PixelWrite
    \/ DisplayOn \/ DisplayOff \/ DeviceSleep \/ DeviceWake \/ DevId
    \/ Fill \/ Image

SpecDevice == InitDevice /\ [][NextDevice]_vars

----------------------------------------------------------------------------
(* Reading an operation's trace *)

\* The D/C level at event i: the last value set before it in the trace,
\* -1 when the operation has not set the line yet
Level(t, i) ==
    LET S == {j \in 1..(i - 1) : t[j].e = "dc"}
    IN  IF S = {} THEN -1 ELSE t[CHOOSE j \in S : \A k \in S : k <= j].v

IsTransfer(t, i) == t[i].e \in {"wr", "xfer"}
IsCommand(t, i, op) == t[i].e = "wr" /\ Level(t, i) = 0 /\ t[i].bytes = <<op>>
IsData(t, i) == t[i].e = "wr" /\ Level(t, i) = 1

\* The trace starts with column-set and row-set, four parameter bytes each
WindowSet(t) ==
    /\ Len(t) >= 8
    /\ t[1] = Event("dc", 0, <<>>) /\ t[2] = Event("wr", 1, <<COLUMN_SET>>)
    /\ t[3] = Event("dc", 1, <<>>) /\ t[4].e = "wr" /\ t[4].v = 4
    /\ t[5] = Event("dc", 0, <<>>) /\ t[6] = Event("wr", 1, <<PAGE_SET>>)
    /\ t[7] = Event("dc", 1, <<>>) /\ t[8].e = "wr" /\ t[8].v = 4

Be16(bytes, i) == bytes[i] * 256 + bytes[i + 1]

\* The window those parameters denote
SentWindow(t) ==
    [x0 |-> Be16(t[4].bytes, 1), x1 |-> Be16(t[4].bytes, 3),
     y0 |-> Be16(t[8].bytes, 1), y1 |-> Be16(t[8].bytes, 3)]

GivenColor == call.color # None
OutOfPanel(x, y) == x < 0 \/ x >= width \/ y < 0 \/ y >= height

----------------------------------------------------------------------------
(* Claims *)

\* C1: whatever integers x, y, width, height fill_rectangle is called with,
\* the window it sends satisfies 0 <= x0 <= x1 < panel width and
\* 0 <= y0 <= y1 < panel height.
C1_RectWindowInPanel ==
    call.op = "fill_rectangle" =>
        /\ WindowSet(bus)
        /\ LET win == SentWindow(bus)
           IN  /\ 0 <= win.x0 /\ win.x0 <= win.x1 /\ win.x1 < width
               /\ 0 <= win.y0 /\ win.y0 <= win.y1 /\ win.y1 < height

\* A rectangle reaching past the right edge, starting below the panel
\* and of zero height, was clamped to the bottom row.
C1_Witness ==
    /\ call.op = "fill_rectangle" /\ width > 1 /\ height > 1
    /\ call.x = 1 /\ call.w = width + 1 /\ call.y = height /\ call.h = 0
    /\ WindowSet(bus)
    /\ SentWindow(bus) = [x0 |-> 1, x1 |-> width - 1,
                          y0 |-> height - 1, y1 |-> height - 1]

\* C2: a pixel write outside the panel makes no bus transfer, changes no
\* pin and returns normally.
C2_PixelOutsideSilent ==
    (call.op = "pixel" /\ GivenColor /\ OutOfPanel(call.x, call.y)) =>
        bus = <<>> /\ ret.err = ""

\* A write one column right of the panel was dropped.
C2_Witness ==
    /\ call.op = "pixel" /\ GivenColor
    /\ call.x = width /\ call.y \in 0..(height - 1)
    /\ bus = <<>> /\ ret.err = ""

\* C3: image() with a placement that exceeds the panel raises before any
\* bus transfer or pin change; the D/C line, the controller's window and
\* the frame memory are as they were.
RotationValid == EffectiveRotation(call.rot) \in {0, 90, 180, 270}
ImageExceeds ==
    LET im == Rotated(call.img, call.rot)
    IN  call.x + im.w > width \/ call.y + im.h > height

C3_ImageExceedsRejected ==
    [][(nops' = nops + 1 /\ call'.op = "image" /\ RotationValid' /\ ImageExceeds')
         => /\ ret'.err # "" /\ bus' = <<>>
            /\ dc_value' = dc_value /\ ctl' = ctl /\ gram' = gram]_vars

\* An RGB image too wide for its place was rejected after an earlier
\* operation had painted the panel.
C3_Witness ==
    /\ call.op = "image" /\ call.img.mode = "RGB" /\ RotationValid
    /\ ImageExceeds /\ nops = 2 /\ gram # GramReset
    /\ ret.err = "ValueError" /\ bus = <<>>

C5_RoundTrip == codec_pc = "packed" => packed = c16

\* 0x0821: the low bit of every field is set and was widened with it.
C5_Witness ==
    /\ codec_pc = "packed" /\ c16 = 2081
    /\ rgb = <<9, 7, 15>> /\ packed = 2081

\* The sizes of the data writes that follow the memory-write command
DataIndexes(t) == {i \in 11..Len(t) : IsData(t, i)}
DataSizes(t) ==
    LET F[i \in 10..Len(t)] ==
            IF i = 10 THEN <<>>
            ELSE IF IsData(t, i) THEN Append(F[i - 1], t[i].v) ELSE F[i - 1]
    IN  F[Len(t)]

\* capacity repeated total // capacity times, then total % capacity if nonzero
ChunkSizes(total, capacity) ==
    [i \in 1..(total \div capacity
               + (IF total % capacity # 0 THEN 1 ELSE 0)) |->
        IF i <= total \div capacity THEN capacity ELSE total % capacity]

RECURSIVE Sum(_)
Sum(s) == IF s = <<>> THEN 0 ELSE Head(s) + Sum(Tail(s))

IsFill == call.op \in {"fill", "fill_rectangle"}

\* The rectangle a fill paints: the panel for fill, else the clamped one
FillRect ==
    IF call.op = "fill" THEN <<0, 0, width, height>>
    ELSE ClampRect(call.x, call.y, call.w, call.h)

\* The payload of a completed bulk operation: pixels for a fill, bytes for
\* an image
Payload ==
    IF IsFill THEN FillRect[3] * FillRect[4]
    ELSE 2 * Rotated(call.img, call.rot).w * Rotated(call.img, call.rot).h

\* The data write sizes in the unit of the payload
PayloadSizes ==
    IF IsFill THEN [i \in DOMAIN DataSizes(bus) |-> DataSizes(bus)[i] \div 2]
    ELSE DataSizes(bus)

IsBulk == (IsFill \/ call.op = "image") /\ ret.err = ""

\* C6: a completed fill (in pixels) or image (in bytes) of payload total
\* makes data writes of sizes 256 repeated total // 256 times, then
\* total % 256 if nonzero: they sum to total, none exceeds 256, none is
\* empty, and total = 0 makes none.
C6_ChunkSizes ==
    IsBulk =>
        /\ WindowSet(bus)
        /\ PayloadSizes = ChunkSizes(Payload, BUFFER_SIZE)
        /\ Sum(PayloadSizes) = Payload
        /\ \A i \in DOMAIN PayloadSizes :
              PayloadSizes[i] >= 1 /\ PayloadSizes[i] <= BUFFER_SIZE
        /\ \A i \in DataIndexes(bus) : IsFill => bus[i].v % 2 = 0
        /\ Payload = 0 => DataIndexes(bus) = {}

\* An image of 33 x 8 pixels, 528 bytes, went out as 256, 256 and 16 bytes.
C6_Witness ==
    /\ call.op = "image" /\ ret.err = "" /\ Payload = 528
    /\ DataSizes(bus) = <<256, 256, 16>>

\* C7: a completed fill_rectangle makes ceil(w * h / 256) data writes after
\* the window, each a repetition of the colour's two bytes, high byte
\* first, and the pixels written are as many as the window holds.
C7_FillPattern ==
    (IsFill /\ ret.err = "") =>
        /\ WindowSet(bus)
        /\ LET win  == SentWindow(bus)
               area == (win.x1 - win.x0 + 1) * (win.y1 - win.y0 + 1)
               wh   == FillRect[3] * FillRect[4]
               c    == call.color[1]
           IN  /\ Cardinality(DataIndexes(bus))
                    = (wh + BUFFER_SIZE - 1) \div BUFFER_SIZE
               /\ \A i \in DataIndexes(bus) :
                     /\ bus[i].v % 2 = 0
                     /\ \A j \in 1..bus[i].v :
                           bus[i].bytes[j]
                             = IF j % 2 = 1 THEN c \div 256 ELSE c % 256
               /\ Sum(DataSizes(bus)) = 2 * area
               /\ \A i \in 11..Len(bus) : IsTransfer(bus, i) => IsData(bus, i)

\* A rectangle of 32 x 16 pixels was painted 0xF81F in two full writes.
C7_Witness ==
    /\ call.op = "fill_rectangle" /\ ret.err = ""
    /\ FillRect = <<0, 0, 32, 16>> /\ call.color = Some(63519)
    /\ DataSizes(bus) = <<512, 512>>
    /\ bus[12].bytes[1] = 248 /\ bus[12].bytes[2] = 31

\* The calls whose trace ends where _block returned from an empty buffer:
\* a fill whose colour cannot be encoded, an image without pixels
BlockOnly ==
    \/ IsFill /\ ~PackableH(call.color[1])
    \/ /\ call.op = "image" /\ ret.err = ""
       /\ Rotated(call.img, call.rot).w * Rotated(call.img, call.rot).h = 0

\* C8 as stated: _block called with an empty buffer sends column-set and
\* row-set and no memory-write command byte.
C8_NoRamWrite ==
    BlockOnly =>
        /\ WindowSet(bus)
        /\ \A i \in 1..Len(bus) : ~IsCommand(bus, i, RAM_WRITE)

\* C8 amended: _block called with an empty buffer sends column-set and
\* row-set with their coordinates and then the memory-write command byte
\* with no data byte.
C8_RamWriteWithoutData ==
    BlockOnly =>
        /\ WindowSet(bus)
        /\ Len(bus) = 10
        /\ bus[9] = Event("dc", 0, <<>>)
        /\ bus[10] = Event("wr", 1, <<RAM_WRITE>>)
        /\ IsCommand(bus, 10, RAM_WRITE)

\* fill_rectangle raised on its colour after _block had set the window
\* (1, 0)-(3, 0) and sent the memory-write command.
C8_Witness ==
    /\ call.op = "fill_rectangle" /\ call.color = Some(65536)
    /\ ret.err = "struct.error"
    /\ WindowSet(bus) /\ Len(bus) = 10 /\ IsCommand(bus, 10, RAM_WRITE)
    /\ SentWindow(bus) = [x0 |-> 1, x1 |-> 3, y0 |-> 0, y1 |-> 0]

\* The window of the operation in logical coordinates
CallWindow ==
    CASE IsFill ->
           [x0 |-> FillRect[1], x1 |-> FillRect[1] + FillRect[3] - 1,
            y0 |-> FillRect[2], y1 |-> FillRect[2] + FillRect[4] - 1]
      [] call.op = "image" ->
           [x0 |-> call.x, x1 |-> call.x + Rotated(call.img, call.rot).w - 1,
            y0 |-> call.y, y1 |-> call.y + Rotated(call.img, call.rot).h - 1]
      [] OTHER ->
           [x0 |-> call.x, x1 |-> call.x, y0 |-> call.y, y1 |-> call.y]

\* C9: every memory-write or memory-read command on the bus comes right
\* after, in the same operation, column-set with four bytes and then
\* row-set with four bytes, each pair of coordinates as two big-endian
\* 16-bit values; every burst of data is in the trace of the operation
\* that set its window.
C9_WindowBeforeBurst ==
    /\ \A i \in 1..Len(bus) :
          (IsCommand(bus, i, RAM_WRITE) \/ IsCommand(bus, i, RAM_READ)) =>
              /\ i = 10 /\ WindowSet(bus) /\ bus[9] = Event("dc", 0, <<>>)
              /\ bus[4].bytes = encode_pos(CallWindow.x0, CallWindow.x1)
              /\ bus[8].bytes = encode_pos(CallWindow.y0, CallWindow.y1)
    /\ \A i \in 9..Len(bus) :
          (IsData(bus, i) \/ bus[i].e = "xfer") =>
              i > 10 /\ (IsCommand(bus, 10, RAM_WRITE)
                         \/ IsCommand(bus, 10, RAM_READ))

\* The second operation of a run read a pixel: its memory-read follows its
\* own column-set and row-set.
C9_Witness ==
    /\ nops = 2 /\ call.op = "pixel" /\ ~GivenColor
    /\ WindowSet(bus) /\ IsCommand(bus, 10, RAM_READ)
    /\ SentWindow(bus) = [x0 |-> 0, x1 |-> 0, y0 |-> 1, y1 |-> 1]
    /\ bus[12].e = "xfer" /\ bus[12].v = 3

\* C10: the coordinates in column-set and row-set are the logical ones
\* offset by the handle's origin: (x0 + offset_left, x1 + offset_left) and
\* (y0 + offset_top, y1 + offset_top).
C10_WindowOffset ==
    WindowSet(bus) =>
        /\ bus[4].bytes = encode_pos(CallWindow.x0 + offset_left,
                                     CallWindow.x1 + offset_left)
        /\ bus[8].bytes = encode_pos(CallWindow.y0 + offset_top,
                                     CallWindow.y1 + offset_top)

----------------------------------------------------------------------------
(* Reads, the transport and the device life cycle *)

IsBlockRead == call.op = "_block"

\* The trace is a window, the memory-read command and one transfer of
\* count bytes, with no memory-write command
ReadBurst(t, count) ==
    /\ WindowSet(t) /\ Len(t) = 12
    /\ t[9] = Event("dc", 0, <<>>) /\ t[10] = Event("wr", 1, <<RAM_READ>>)
    /\ t[11] = Event("dc", 1, <<>>)
    /\ t[12].e = "xfer" /\ t[12].v = count /\ Len(t[12].bytes) = count
    /\ \A i \in 1..Len(t) : ~IsCommand(t, i, RAM_WRITE)

\* C11: _block without data, on a window x0 <= x1, y0 <= y1 of encodable
\* coordinates, sends the memory-read command after the window and
\* requests (x1-x0+1)*(y1-y0+1)*3 bytes, with no memory-write command; a
\* pixel read requests 3 bytes r, g, b and returns
\* (r & 0xF8) << 8 | (g & 0xFC) << 3 | b >> 3, a value in 0..65535.
C11_ReadBurst ==
    /\ (/\ IsBlockRead
        /\ call.win[1] <= call.win[3] /\ call.win[2] <= call.win[4]
        /\ \A k \in 1..4 : PackableH(call.win[k])) =>
           /\ ret.err = ""
           /\ ReadBurst(bus, (call.win[3] - call.win[1] + 1)
                               * (call.win[4] - call.win[2] + 1) * 3)
           /\ SentWindow(bus) = [x0 |-> call.win[1], x1 |-> call.win[3],
                                 y0 |-> call.win[2], y1 |-> call.win[4]]
           /\ ret.value = Some(bus[12].bytes)
    /\ (/\ call.op = "pixel" /\ ~GivenColor
        /\ PackableH(call.x) /\ PackableH(call.y)) =>
           /\ ret.err = ""
           /\ ReadBurst(bus, 3)
           /\ LET r == bus[12].bytes[1]
                  g == bus[12].bytes[2]
                  b == bus[12].bytes[3]
              IN  /\ ret.value
                       = Some((r \div 8) * 2048 + (g \div 4) * 32 + b \div 8)
                  /\ ret.value[1] \in 0..65535

\* _block read the window (1, 0)-(3, 1), six pixels, as 18 bytes.
C11_Witness ==
    /\ IsBlockRead /\ call.win = <<1, 0, 3, 1>> /\ ret.err = ""
    /\ bus[10] = Event("wr", 1, <<RAM_READ>>)
    /\ bus[12].e = "xfer" /\ bus[12].v = 18

\* The level the D/C line is left at by the trace t, starting from dc
FinalLevel(t, dc) == IF Level(t, Len(t) + 1) = -1 THEN dc
                     ELSE Level(t, Len(t) + 1)

\* C12: in every operation each bus transfer comes right after the D/C
\* line was set for it: low for a command, which is one byte, high for
\* data bytes and read clocks; the line is never set after a transfer
\* without another transfer following, and a call of write with a command
\* and data sends the command byte first.
C12_LineBeforeTransfer ==
    /\ \A i \in 1..Len(bus) :
          IsTransfer(bus, i) =>
              /\ i > 1 /\ bus[i - 1].e = "dc" /\ bus[i - 1].v \in {0, 1}
              /\ bus[i - 1].v = 0 => (bus[i].e = "wr" /\ bus[i].v = 1)
              /\ bus[i].e = "xfer" => bus[i - 1].v = 1
    /\ \A i \in 1..Len(bus) :
          bus[i].e = "dc" => (i < Len(bus) /\ IsTransfer(bus, i + 1))
    /\ \A i \in 1..Len(bus) : bus[i].e = "dc" => dc_value = FinalLevel(bus, 0)
    /\ (call.op = "write" /\ call.command # None /\ call.data # None) =>
          bus = << Event("dc", 0, <<>>), Event("wr", 1, <<call.command[1]>>),
                   Event("dc", 1, <<>>),
                   Event("wr", Len(call.data[1]), call.data[1]) >>
    /\ (call.op = "read" /\ call.command # None /\ call.count >= 0) =>
          /\ Len(bus) = 4
          /\ bus[1] = Event("dc", 0, <<>>)
          /\ bus[2] = Event("wr", 1, <<call.command[1]>>)
          /\ bus[3] = Event("dc", 1, <<>>)
          /\ bus[4].e = "xfer" /\ bus[4].v = call.count

\* The second operation of a run wrote the command 0x2C and two data bytes.
C12_Witness ==
    /\ nops = 2 /\ call.op = "write"
    /\ call.command = Some(RAM_WRITE) /\ call.data = Some(<<248, 31>>)
    /\ Len(bus) = 4 /\ IsCommand(bus, 2, RAM_WRITE) /\ IsData(bus, 4)
    /\ dc_value = 1

\* C13: write(None, b"") makes no bus transfer, leaves the D/C line as it
\* was and does not raise, as write(None, None) does.
C13_EmptyWriteNoOp ==
    (call.op = "write" /\ call.command = None /\ call.data = Some(<<>>)) =>
        bus = <<>> /\ ret.err = ""

\* C14: on a device constructed without a reset pin, reset() raises
\* without changing a pin, and init() raises the same error before it
\* sends a command or data.
C14_NoResetPin ==
    (~rst_pin /\ call.op \in {"reset", "init"}) =>
        /\ ret.err = "RuntimeError"
        /\ bus = <<>>

\* init() was called after another operation on a device without a reset
\* pin and raised.
C14_Witness ==
    /\ ~rst_pin /\ nops = 2 /\ call.op = "init"
    /\ ret.err = "RuntimeError" /\ bus = <<>>

\* The positions of the command bytes in the trace
CommandIndexes(t) == {i \in 1..Len(t) : t[i].e = "wr" /\ Level(t, i) = 0}

\* The command bytes of the trace in the order sent
Commands(t) ==
    LET S == CommandIndexes(t)
        at(k) == CHOOSE i \in S : Cardinality({j \in S : j < i}) = k - 1
    IN  [k \in 1..Cardinality(S) |-> t[at(k)].bytes[1]]

\* Where the command op was sent
CommandAt(t, op) == CHOOSE i \in CommandIndexes(t) : t[i].bytes = <<op>>

\* The position of the first transfer after event i, Len(t) + 1 if none
NextTransfer(t, i) ==
    LET S == {j \in (i + 1)..Len(t) : IsTransfer(t, j)}
    IN  IF S = {} THEN Len(t) + 1 ELSE CHOOSE j \in S : \A k \in S : j <= k

\* The position of the first command after event i, Len(t) + 1 if none
NextCommand(t, i) ==
    LET S == {j \in CommandIndexes(t) : j > i}
    IN  IF S = {} THEN Len(t) + 1 ELSE CHOOSE j \in S : \A k \in S : j <= k

\* The data bytes sent after the command at i and before the next command
ParamsOf(t, i) ==
    LET F[j \in i..(NextCommand(t, i) - 1)] ==
            IF j = i THEN <<>>
            ELSE IF IsData(t, j) THEN F[j - 1] \o t[j].bytes ELSE F[j - 1]
    IN  F[NextCommand(t, i) - 1]

\* The delay, in ms, between the transfer at i and the next transfer, or
\* the return of the operation
SettleAfter(t, i) ==
    LET F[j \in i..(NextTransfer(t, i) - 1)] ==
            IF j = i THEN 0
            ELSE IF t[j].e = "sleep" THEN F[j - 1] + t[j].v ELSE F[j - 1]
    IN  F[NextTransfer(t, i) - 1]

InitDone == call.op = "init" /\ rst_pin

\* C15: init() sends, after the reset pulse and in this order with no other
\* command between: software reset, sleep-out, frame-rate control 1, 2, 3,
\* display-inversion control, the five power commands (0xC0, 0xC1, 0xC3,
\* 0xC4 and 0xC5), invert-on iff the invert flag is set and else
\* invert-off, memory-access-control, colour mode with parameter 0x05,
\* column-set, row-set, gamma-positive with 16 data bytes, gamma-negative
\* with 16 data bytes, normal-display-on, display-on.
C15_InitSequence ==
    InitDone =>
        /\ ret.err = ""
        /\ Len(bus) > 4
        /\ bus[1] = Event("rst", 0, <<>>) /\ bus[2].e = "sleep"
        /\ bus[3] = Event("rst", 1, <<>>) /\ bus[4].e = "sleep"
        /\ NextTransfer(bus, 0) > 4
        /\ \A i \in 5..Len(bus) : bus[i].e # "rst"
        /\ Commands(bus)
             = << SWRESET, SLPOUT, FRMCTR1, FRMCTR2, FRMCTR3, INVCTR,
                  PWCTR1, PWCTR2, PWCTR4, PWCTR5, VMCTR1,
                  IF invert THEN INVON ELSE INVOFF,
                  MADCTL, COLMOD, CASET, RASET, GMCTRP1, GMCTRN1,
                  NORON, DISPON >>
        /\ ParamsOf(bus, CommandAt(bus, COLMOD)) = <<5>>
        /\ Len(ParamsOf(bus, CommandAt(bus, GMCTRP1))) = 16
        /\ Len(ParamsOf(bus, CommandAt(bus, GMCTRN1))) = 16

\* init() ran on a device whose invert flag was set and sent invert-on
\* between the VCOM command and memory-access-control.
C15_Witness ==
    /\ InitDone /\ invert /\ ret.err = ""
    /\ Len(Commands(bus)) = 20
    /\ Commands(bus)[11] = VMCTR1 /\ Commands(bus)[12] = INVON
    /\ Commands(bus)[13] = MADCTL

\* C16: in init() no transfer is made until 150 ms have passed after
\* software reset, none until 500 ms after sleep-out, none until 10 ms
\* after normal-display-on, and init() returns no sooner than 100 ms after
\* display-on.
C16_InitSettle ==
    InitDone =>
        /\ SettleAfter(bus, CommandAt(bus, SWRESET)) >= 150
        /\ SettleAfter(bus, CommandAt(bus, SLPOUT)) >= 500
        /\ SettleAfter(bus, CommandAt(bus, NORON)) >= 10
        /\ SettleAfter(bus, CommandAt(bus, DISPON)) >= 100
        /\ NextTransfer(bus, CommandAt(bus, DISPON)) = Len(bus) + 1

\* init() completed: 150 ms lie between software reset and sleep-out, and
\* the trace ends with the delay after display-on.
C16_Witness ==
    /\ InitDone /\ ret.err = ""
    /\ NextTransfer(bus, CommandAt(bus, SWRESET)) = CommandAt(bus, SLPOUT)
    /\ SettleAfter(bus, CommandAt(bus, SWRESET)) = 150
    /\ bus[Len(bus)] = Event("sleep", 100, <<>>)

\* C17: the parameters init() sends for column-set are the 4 bytes of the
\* big-endian pair (offset_left, width + offset_left - 1), and for row-set
\* those of (offset_top, height + offset_top - 1).
C17_InitWindowEncoding ==
    InitDone =>
        /\ ParamsOf(bus, CommandAt(bus, CASET))
             = encode_pos(offset_left, width + offset_left - 1)
        /\ ParamsOf(bus, CommandAt(bus, RASET))
             = encode_pos(offset_top, height + offset_top - 1)

----------------------------------------------------------------------------
(* Widening, and the windows of the drawing operations *)

\* The 5-, 6- and 5-bit fields of a 16-bit colour
Field5R(c) == c \div 2048
Field6G(c) == (c \div 32) % 64
Field5B(c) == c % 32

\* C18: color_int_to_tuple shifts each field to the top of its byte and
\* sets every vacated low bit to the field's lowest bit:
\* red = (r5 << 3) | 7*(r5 & 1), green = (g6 << 2) | 3*(g6 & 1),
\* blue = (b5 << 3) | 7*(b5 & 1).
C18_LowBitReplicated ==
    codec_pc \in {"widened", "packed"} =>
        rgb = << Field5R(c16) * 8 + 7 * (Field5R(c16) % 2),
                 Field6G(c16) * 4 + 3 * (Field6G(c16) % 2),
                 Field5B(c16) * 8 + 7 * (Field5B(c16) % 2) >>

\* C19: every window that a drawing operation sends through column-set and
\* row-set satisfies x0 <= x1, y0 <= y1 and lies inside the panel.
C19_EveryWindowInPanel ==
    WindowSet(bus) =>
        LET win == SentWindow(bus)
        IN  /\ 0 <= win.x0 /\ win.x0 <= win.x1 /\ win.x1 < width
            /\ 0 <= win.y0 /\ win.y0 <= win.y1 /\ win.y1 < height

\* C20: for w, h >= 1 every position of the window fill_rectangle sets
\* lies in the requested rectangle [x, x+w) x [y, y+h) and in the panel.
C20_FillClipsToRequest ==
    (call.op = "fill_rectangle" /\ call.w >= 1 /\ call.h >= 1
       /\ WindowSet(bus)) =>
        LET win == SentWindow(bus)
        IN  /\ call.x <= win.x0 /\ win.x1 < call.x + call.w
            /\ call.y <= win.y0 /\ win.y1 < call.y + call.h
            /\ 0 <= win.x0 /\ win.x1 < width
            /\ 0 <= win.y0 /\ win.y1 < height

----------------------------------------------------------------------------
(* The opcodes the driver sends *)

\* The command set the specification enumerates
DocumentedCommands ==
    {1, 4, 16, 17, 18, 19, 32, 33, 40, 41, 42, 43, 44, 46, 54, 58,
     177, 178, 179, 180, 192, 193, 194, 195, 196, 224, 225}

\* The operations that choose their opcodes themselves: all but the
\* transport's write and read, whose command is the caller's
DriverChosen == call.op \notin {"write", "read"}

\* C21 as stated: every opcode the driver sends, in init() and in every
\* other public operation, is in the enumerated set (0x01, 0x04, 0x10 ..
\* 0x13, 0x20, 0x21, 0x28 .. 0x2C, 0x2E, 0x36, 0x3A, 0xB1 .. 0xB4,
\* 0xC0 .. 0xC4, 0xE0, 0xE1).
C21_OpcodesDocumented ==
    DriverChosen =>
        \A i \in CommandIndexes(bus) : bus[i].bytes[1] \in DocumentedCommands

\* C21 amended: every opcode the driver sends is in the enumerated set or
\* is VCOM control 0xC5, which init() sends after the power controls.
C21_OpcodesDocumentedOrVcom ==
    DriverChosen =>
        \A i \in CommandIndexes(bus) :
            /\ Len(bus[i].bytes) = 1
            /\ bus[i].bytes[1] \in DocumentedCommands \cup {VMCTR1}
            /\ bus[i].bytes[1] = VMCTR1 => call.op = "init"

\* init() completed and sent 0xC5 right after power control 5.
C21_Witness ==
    /\ InitDone /\ ret.err = ""
    /\ \E i \in CommandIndexes(bus) :
          /\ bus[i].bytes = <<VMCTR1>>
          /\ ParamsOf(bus, i) = <<14>>
          /\ \E j \in CommandIndexes(bus) :
                bus[j].bytes = <<PWCTR5>> /\ NextCommand(bus, j) = i

----------------------------------------------------------------------------
(* What image and pixel put on the bus *)

\* The bytes of the data writes that follow event 10, in the order sent
DataStream(t) ==
    LET F[i \in 10..Len(t)] ==
            IF i = 10 THEN <<>>
            ELSE IF IsData(t, i) THEN F[i - 1] \o t[i].bytes ELSE F[i - 1]
    IN  F[Len(t)]

\* The image as RGB565, row by row, two bytes per pixel, high byte first
Rgb565Stream(img) ==
    [k \in 1..(2 * img.w * img.h) |->
        LET p == (k - 1) \div 2
            c == Px(img, p % img.w, p \div img.w)
            v == (c[1] \div 8) * 2048 + (c[2] \div 4) * 32 + c[3] \div 8
        IN  IF k % 2 = 1 THEN v \div 256 ELSE v % 256]

\* C22: an image() that is accepted and completes sets the window
\* (x, y, x+w-1, y+h-1) of the rotated size w x h, then makes data writes
\* whose concatenation is the image's RGB565 stream, 2*w*h bytes, and
\* issues no memory-read command and no bus read.
C22_ImageStream ==
    (call.op = "image" /\ ret.err = "") =>
        LET img == Rotated(call.img, call.rot)
        IN  /\ WindowSet(bus) /\ Len(bus) >= 10
            /\ bus[4].bytes = encode_pos(call.x, call.x + img.w - 1)
            /\ bus[8].bytes = encode_pos(call.y, call.y + img.h - 1)
            /\ IsCommand(bus, 10, RAM_WRITE)
            /\ DataStream(bus) = Rgb565Stream(img)
            /\ Len(DataStream(bus)) = 2 * img.w * img.h
            /\ \A i \in 1..Len(bus) :
                  bus[i].e # "xfer" /\ ~IsCommand(bus, i, RAM_READ)
            /\ \A i \in 11..Len(bus) : IsTransfer(bus, i) => IsData(bus, i)

\* A 3 x 4 image turned by 90 degrees went to a 4 x 3 panel as 24 bytes.
C22_Witness ==
    /\ call.op = "image" /\ ret.err = ""
    /\ call.img.w = 3 /\ call.img.h = 4 /\ call.rot = Some(90)
    /\ SentWindow(bus) = [x0 |-> 0, x1 |-> 3, y0 |-> 0, y1 |-> 2]
    /\ Len(DataStream(bus)) = 24
    /\ DataStream(bus)[1] # DataStream(bus)[2]

\* C23: a pixel write with 0 <= x < width, 0 <= y < height and a 16-bit
\* colour puts on the bus column-set with (x, x), row-set with (y, y),
\* memory-write and the colour's two bytes, high byte first, and nothing
\* else; x and y are sent as given.
C23_PixelWriteTraffic ==
    (/\ call.op = "pixel" /\ GivenColor /\ ~OutOfPanel(call.x, call.y)
     /\ PackableH(call.color[1])) =>
        /\ ret.err = "" /\ ret.value = None
        /\ bus = << Event("dc", 0, <<>>), Event("wr", 1, <<COLUMN_SET>>),
                    Event("dc", 1, <<>>),
                    Event("wr", 4, <<call.x \div 256, call.x % 256,
                                     call.x \div 256, call.x % 256>>),
                    Event("dc", 0, <<>>), Event("wr", 1, <<PAGE_SET>>),
                    Event("dc", 1, <<>>),
                    Event("wr", 4, <<call.y \div 256, call.y % 256,
                                     call.y \div 256, call.y % 256>>),
                    Event("dc", 0, <<>>), Event("wr", 1, <<RAM_WRITE>>),
                    Event("dc", 1, <<>>),
                    Event("wr", 2, <<call.color[1] \div 256,
                                     call.color[1] % 256>>) >>

\* The pixel in the last column of the second row of a 4 x 3 panel was
\* written 0xF81F.
C23_Witness ==
    /\ call.op = "pixel" /\ call.color = Some(63519) /\ width = 4
    /\ call.x = 3 /\ call.y = 1 /\ ret.err = ""
    /\ Len(bus) = 12 /\ bus[4].bytes = <<0, 3, 0, 3>>
    /\ bus[8].bytes = <<0, 1, 0, 1>> /\ bus[12].bytes = <<248, 31>>

----------------------------------------------------------------------------
(* The reset pulse, and init() called again *)

\* The positions where the reset pin is driven
RstIndexes(t) == {i \in 1..Len(t) : t[i].e = "rst"}

\* The trace starts with the pin low, 50 ms or more, the pin high, 50 ms
\* or more
ResetPulse(t) ==
    /\ Len(t) >= 4
    /\ t[1] = Event("rst", 0, <<>>)
    /\ t[2].e = "sleep" /\ t[2].v >= 50
    /\ t[3] = Event("rst", 1, <<>>)
    /\ t[4].e = "sleep" /\ t[4].v >= 50

\* C24: reset() on a device with a reset pin drives it low, waits 50 ms or
\* more, drives it high and waits 50 ms or more, with no bus transfer
\* between; init() starts with the same pulse; no operation drives the pin
\* otherwise, so the pin is high when reset() or init() has returned and
\* when any later command is sent.
C24_ResetPulse ==
    /\ (call.op = "reset" /\ rst_pin) =>
          ret.err = "" /\ ResetPulse(bus) /\ Len(bus) = 4
    /\ InitDone =>
          /\ ret.err = "" /\ ResetPulse(bus)
          /\ RstIndexes(bus) = {1, 3}
          /\ NextTransfer(bus, 0) > 4
    /\ RstIndexes(bus) # {} => call.op \in {"reset", "init"}

\* reset() ran as the second operation on a device with a reset pin.
C24_Witness ==
    /\ call.op = "reset" /\ rst_pin /\ nops = 2 /\ ret.err = ""
    /\ bus = << Event("rst", 0, <<>>), Event("sleep", 50, <<>>),
                Event("rst", 1, <<>>), Event("sleep", 50, <<>>) >>

\* C25: with the configuration unchanged, every call of init() emits the
\* same sequence of reset-pin changes, D/C changes, transfers and delays,
\* whatever was executed before it (the one a fresh handle emits, and the
\* one the preceding init() emitted), and it changes no field of the handle.
C25_InitRepeatable ==
    [][(nops' = nops + 1 /\ call'.op = "init") =>
          /\ handle' = handle
          /\ bus' = init(Bus(0)).trace
          /\ ret'.err = init(Bus(0)).err
          /\ (call.op = "init" => bus' = bus /\ ret' = ret)]_vars

\* init() completed as the second operation, after one that had painted
\* the frame memory.
C25_Witness ==
    /\ nops = 2 /\ InitDone /\ ret.err = ""
    /\ Len(Commands(bus)) = 20
    /\ ctl.cmd = DISPON /\ dc_value = 0
    /\ gram # GramReset

----------------------------------------------------------------------------
(* Bulk data under one memory-write, and its effect on the frame memory *)

\* C28: in a completed fill, fill_rectangle or image the commands are
\* column-set, row-set and one memory-write, in this order; every
\* pixel-data write comes after that memory-write, with no command between
\* it and the last data write.
C28_DataUnderRamWrite ==
    IsBulk =>
        /\ CommandIndexes(bus) = {2, 6, 10}
        /\ Commands(bus) = <<COLUMN_SET, PAGE_SET, RAM_WRITE>>
        /\ \A i \in 9..Len(bus) :
              bus[i].e = "wr" /\ i # 10 =>
                  /\ i > 10 /\ IsData(bus, i)
                  /\ NextCommand(bus, 10) = Len(bus) + 1

\* fill() of the 33 x 16 panel, two full buffers and a rest:
\* 528 pixels went out in three data writes after one
\* memory-write.
C28_Witness ==
    /\ call.op = "fill" /\ ret.err = "" /\ width * height = 528
    /\ Commands(bus) = <<COLUMN_SET, PAGE_SET, RAM_WRITE>>
    /\ DataSizes(bus) = <<512, 512, 32>>

\* The pixel of the frame memory at index i lies in the rectangle r
InRect(i, r) ==
    LET px == (i - 1) % width
        py == (i - 1) \div width
    IN  /\ r[1] <= px /\ px < r[1] + r[3]
        /\ r[2] <= py /\ py < r[2] + r[4]

\* C29: on the reference controller a completed fill_rectangle sets the
\* pixels of its clamped window to the colour and leaves every other pixel
\* as it was, and fill sets every pixel of the panel, after any preceding
\* operations.
C29_FillEffect ==
    [][(nops' = nops + 1 /\ IsFill' /\ ret'.err = "") =>
          /\ DOMAIN gram' = 1..(width * height)
          /\ \A i \in 1..(width * height) :
                gram'[i] = IF InRect(i, FillRect') THEN call'.color[1]
                           ELSE gram[i]
          /\ call'.op = "fill" =>
                \A i \in 1..(width * height) : gram'[i] = call'.color[1]]_vars

\* The second operation filled one row of the panel with 0x07E0 and left
\* 0xF81F, painted by the first, in another.
C29_Witness ==
    /\ nops = 2 /\ call.op = "fill_rectangle" /\ ret.err = ""
    /\ call.color = Some(2016)
    /\ \E i \in DOMAIN gram : InRect(i, FillRect) /\ gram[i] = 2016
    /\ \E i \in DOMAIN gram : ~InRect(i, FillRect) /\ gram[i] = 63519

----------------------------------------------------------------------------
(* One operation on a device that fails one transfer *)

FaultScenarios ==
    { [w |-> 33, h |-> 16, rot |-> 0,  rst |-> TRUE],
      [w |-> 4,  h |-> 3,  rot |-> 90, rst |-> FALSE] }

\* Arguments x, y, w, h of fill_rectangle
FaultRects == {<<0, 0, width, height>>, <<1, 1, 2, 1>>}
FaultImages == {Img(1, "RGB", 2, 1), Img(4, "L", 2, 1)}
FaultPixelXs == {0, width}

\* The call, the transfer the device fails and what it answers to a read
FaultCall(c, k, rx) ==
    [op |-> c.op, x |-> c.x, y |-> c.y, w |-> c.w, h |-> c.h,
     color |-> c.color, rot |-> c.rot, img |-> c.img,
     fault |-> k, rx |-> rx]

\* The operation c runs on a freshly opened device that fails transfer k
Run(c, k) ==
    LET b == FaultyBus(0, k)
    IN  CASE c.op = "init" -> init(b)
          [] c.op = "fill_rectangle" ->
                 fill_rectangle(b, c.x, c.y, c.w, c.h, c.color[1])
          [] c.op = "image" -> image(b, c.img, c.rot, c.x, c.y)
          [] OTHER -> pixel(b, c.x, c.y, c.color, c.rx)

InitFault ==
    /\ \E s \in FaultScenarios :
          /\ width = s.w /\ height = s.h /\ rotation = s.rot
          /\ rst_pin = s.rst
    /\ plan = "fault"
    /\ invert = FALSE /\ offset_left = 0 /\ offset_top = 0
    /\ dc_value = 0
    /\ call = FaultCall(Call("__init__", 0, 0, 0, 0, None, None, NoImg),
                        0, <<>>)
    /\ bus = <<>>
    /\ ret = [err |-> "", value |-> None]
    /\ ctl = CtlReset /\ gram = GramReset
    /\ nops = 0 /\ threads = <<>>
    /\ c16 = 0 /\ rgb = <<0, 0, 0>> /\ packed = 0 /\ codec_pc = "idle"

\* A public operation was called as c; whether the bytes of a transfer
\* that raised reached the controller is not known to the driver
FaultyOperation(c) ==
    LET b == Run(c, c.fault)
    IN  /\ nops < Budget
        /\ nops' = nops + 1
        /\ call' = c
        /\ bus' = b.trace
        /\ dc_value' = b.dc
        /\ ret' = [err |-> b.err,
                   value |-> IF c.op = "pixel" THEN pixel_value(b, c.color)
                             ELSE None]
        /\ \E seen \in {Len(b.trace),
                        IF b.err = "OSError" THEN Len(b.trace) - 1
                        ELSE Len(b.trace)} :
              LET st == Controller([dc |-> dc_value, c |-> ctl, g |-> gram],
                                   SubSeq(b.trace, 1, seen), 1)
              IN  ctl' = st.c /\ gram' = st.g
        /\ UNCHANGED <<handle, plan, codec, threads>>

FaultyInit ==
    \E k \in 1..MaxFault :
        FaultyOperation(
            FaultCall(Call("init", 0, 0, 0, 0, None, None, NoImg), k, <<>>))

FaultyFillRectangle ==
    \E r \in FaultRects, k \in 1..MaxFault :
        FaultyOperation(
            FaultCall(Call("fill_rectangle", r[1], r[2], r[3], r[4],
                           Some(63519), None, NoImg), k, <<>>))

FaultyImage ==
    \E img \in FaultImages, k \in 1..MaxFault :
        FaultyOperation(
            FaultCall(Call("image", 1, 0, 0, 0, None, None, img), k, <<>>))

FaultyPixelWrite ==
    \E x \in FaultPixelXs, k \in 1..MaxFault :
        FaultyOperation(
            FaultCall(Call("pixel", x, 0, 0, 0, Some(2016), None, NoImg),
                      k, <<>>))

FaultyPixelRead ==
    \E k \in 1..MaxFault :
        FaultyOperation(
            FaultCall(Call("pixel", 1, 1, 0, 0, None, None, NoImg),
                      k, <<18, 52, 86>>))

NextFault ==
    \/ FaultyInit \/ FaultyFillRectangle \/ FaultyImage
    \/ FaultyPixelWrite \/ FaultyPixelRead

SpecFault == InitFault /\ [][NextFault]_vars

\* How many bus transfers the trace holds
Transfers(t) == Cardinality({i \in 1..Len(t) : IsTransfer(t, i)})

IsPrefix(s, t) == Len(s) <= Len(t) /\ SubSeq(t, 1, Len(s)) = s

\* C27: when the device fails the k-th transfer of init, fill_rectangle,
\* image or pixel, the operation raises that error to its caller and its
\* trace is the trace of the undisturbed operation cut right after the
\* k-th transfer: the failed transfer appears once (no retry) and no
\* transfer, D/C change or other step follows it.  An operation that makes
\* fewer than k transfers runs exactly as on a sound device.
C27_FailureStops ==
    nops > 0 =>
        LET sound == Run(call, 0)
        IN  IF Transfers(sound.trace) >= call.fault
            THEN /\ ret.err = "OSError"
                 /\ ret.value = None
                 /\ IsPrefix(bus, sound.trace)
                 /\ Transfers(bus) = call.fault
                 /\ IsTransfer(bus, Len(bus))
            ELSE /\ bus = sound.trace
                 /\ ret.err = sound.err

\* init on the 33 x 16 panel failed at its twentieth transfer, well before
\* the end of the sequence
C27_Witness ==
    /\ call.op = "init" /\ call.fault = 20 /\ rst_pin
    /\ ret.err = "OSError"
    /\ Transfers(bus) = 20
    /\ Len(bus) < Len(Run(call, 0).trace)

----------------------------------------------------------------------------
(* Two callers of fill_rectangle on one device *)

\* The rectangles x, y, w, h the two callers fill: disjoint, inside the
\* 4 x 3 panel
RacePairs ==
    { << <<1, 1, 2, 1>>, <<2, 0, 2, 1>> >>,
      << <<0, 0, 1, 3>>, <<2, 1, 2, 2>> >> }

\* A caller about to run fill_rectangle(r, color): its call, the pin and
\* bus calls it will make in order, and how many of them it has made
Caller(r, color) ==
    [op   |-> Call("fill_rectangle", r[1], r[2], r[3], r[4], Some(color),
                   None, NoImg),
     prog |-> fill_rectangle(Bus(0), r[1], r[2], r[3], r[4], color).trace,
     pc   |-> 0]

InitRace ==
    /\ width = 4 /\ height = 3 /\ rotation = 0 /\ rst_pin = TRUE
    /\ plan \in {"serial", "race"}
    /\ invert = FALSE /\ offset_left = 0 /\ offset_top = 0
    /\ dc_value = 0
    /\ call = Call("__init__", 0, 0, 0, 0, None, None, NoImg)
    /\ bus = <<>>
    /\ ret = [err |-> "", value |-> None]
    /\ ctl = CtlReset /\ gram = GramReset
    /\ nops = 0
    /\ \E p \in RacePairs :
          threads = <<Caller(p[1], 63519), Caller(p[2], 2016)>>
    /\ c16 = 0 /\ rgb = <<0, 0, 0>> /\ packed = 0 /\ codec_pc = "idle"

Started(t) == threads[t].pc > 0
Done(t)    == threads[t].pc = Len(threads[t].prog)

\* Under the plan "serial" the callers hold a lock of their own around the
\* operation; under "race" nothing orders their pin and bus calls
MayRun(t) ==
    \/ plan = "race"
    \/ \A u \in DOMAIN threads \ {t} : ~Started(u) \/ Done(u)

\* Caller t makes its next pin or bus call on the shared device
Deliver(t) ==
    /\ t \in DOMAIN threads
    /\ ~Done(t)
    /\ MayRun(t)
    /\ LET st == CtlEvent([dc |-> dc_value, c |-> ctl, g |-> gram],
                          threads[t].prog[threads[t].pc + 1])
       IN  dc_value' = st.dc /\ ctl' = st.c /\ gram' = st.g
    /\ threads' = [threads EXCEPT ![t].pc = @ + 1]
    /\ nops' = IF threads[t].pc + 1 = Len(threads[t].prog)
               THEN nops + 1 ELSE nops
    /\ UNCHANGED <<handle, call, bus, ret, plan, codec>>

NextRace == Deliver(1) \/ Deliver(2)

SpecRace == InitRace /\ [][NextRace]_vars

\* The rectangle and the colour of caller t
RectOf(t)  == ClampRect(threads[t].op.x, threads[t].op.y,
                        threads[t].op.w, threads[t].op.h)
ColorOf(t) == threads[t].op.color[1]

\* The controller's window is the rectangle r
WindowIs(r) ==
    /\ ctl.xs = r[1] /\ ctl.xe = r[1] + r[3] - 1
    /\ ctl.ys = r[2] /\ ctl.ye = r[2] + r[4] - 1

\* C26: the driver orders nothing between callers.  When two callers run
\* fill_rectangle one after another, each one's pixel data is sent while
\* the controller holds that caller's own window, memory-write is the
\* command in force and D/C is high; a caller's colour is found only
\* inside its own rectangle, and fills it once the caller is done.  (With
\* the callers' pin and bus calls free to interleave this fails: see the
\* state C26_Witness.)
C26_SerialOwnWindow ==
    plan = "serial" =>
        \A t \in DOMAIN threads :
            /\ threads[t].pc = Len(threads[t].prog) - 1 =>
                  /\ WindowIs(RectOf(t))
                  /\ ctl.cmd = RAM_WRITE /\ dc_value = 1
            /\ \A i \in DOMAIN gram :
                  gram[i] = ColorOf(t) => InRect(i, RectOf(t))
            /\ Done(t) =>
                  \A i \in DOMAIN gram :
                      InRect(i, RectOf(t)) => gram[i] = ColorOf(t)

\* Unordered callers: one has finished, the controller holds the other's
\* window, and a pixel of the other's rectangle, outside the finished
\* caller's own, carries the finished caller's colour
C26_Witness ==
    /\ plan = "race"
    /\ \E t, u \in DOMAIN threads :
          /\ t # u /\ Done(t) /\ Started(u)
          /\ WindowIs(RectOf(u))
          /\ \E i \in DOMAIN gram :
                /\ InRect(i, RectOf(u)) /\ ~InRect(i, RectOf(t))
                /\ gram[i] = ColorOf(t)

=============================================================================
